---- MODULE Spec2Model ----
(***************************************************************************)
(* A model of smtp_gateway: the command-line parser, the reply writers,    *)
(* the command handlers and the per-connection SMTP session loop.          *)
(*                                                                         *)
(* Strings are sequences of byte values (0..255).  A Rust Range a..b is    *)
(* the pair <<a, b>> (0-based, half open).  Option is a sequence of        *)
(* length 0 (None) or 1 (Some).  A Rust panic is an explicit outcome       *)
(* tagged "Panic", produced exactly where the code indexes, slices or      *)
(* reaches unreachable!().                                                 *)
(***************************************************************************)
EXTENDS Integers, Sequences, FiniteSets, TLC

VARIABLES
    \* ---- one SMTP session (connection::handle) ----
    pc,           \* "accepted" | "reading" | "handling" | "closed"
    sent,         \* complete lines the client has put on the wire so far
    fragment,     \* the client's last bytes on the wire are a line without LF
    clientClosed, \* the client has closed its write side
    lineNo,       \* number of lines read_line has returned so far
    handled,      \* number of lines command::handle has finished with
    line,         \* the bytes consumed by the last read_line
    greeting,     \* the chunks written before the loop
    out,          \* the chunks written since the last read_line
    shouldClose,  \* what command::handle returned for the last line
    closeReason,  \* the CloseReason the loop broke with
    ret,          \* what connection::handle returned: "none" | "Ok" | "Err" | "Panic"
    lastRead,     \* what the last reader.read_line under the timeout came to:
                  \* "none" | "Bytes" | "Zero" | "Elapsed" | an io::ErrorKind
    timerFired,   \* SERVER_TIMEOUT has passed since the read in progress began
    \* ---- the functions applied to one input (parse, the command handlers) ----
    fnpc,         \* "idle" | "start" | "parsed" | the name of the handler applied
    input,        \* the string given to the function
    parsed,       \* the result of parse(input)
    reply,        \* the result of the handler applied to the parsed command
    smtp,         \* the result of SmtpString::new(input)
    again,        \* the result of SmtpString::new on the string of smtp
    padded,       \* parse applied to input between a whitespace prefix and suffix
    rawStr,       \* RawSmtpStr::new_from_ascii applied to input, with its capacity
    \* ---- the listener (listen) ----
    lpc,          \* "off" | "accepting" | "ended": where the stream of listen stands
    pending,      \* connections waiting to be accepted
    items,        \* what the stream has yielded: session numbers and "Err"
    sessions      \* per spawned session: "running" | "Ok" | "Err" | "Panic"

vars == <<pc, sent, fragment, clientClosed, lineNo, handled, line, greeting, out,
          shouldClose, closeReason, ret, lastRead, timerFired, fnpc, input, parsed, reply,
          smtp, again, padded, rawStr, lpc, pending, items, sessions>>

sessionVars == <<pc, sent, fragment, clientClosed, lineNo, handled, line, greeting,
                 out, shouldClose, closeReason, ret, lastRead, timerFired>>

fnVars == <<fnpc, input, parsed, reply, smtp, again, padded, rawStr>>

listenVars == <<lpc, pending, items, sessions>>

(***************************************************************************)
(* Bounds of the model.                                                    *)
(***************************************************************************)
\* Longest string drawn from an alphabet when a function's inputs are enumerated.
MaxLen == 4
\* Most complete lines one client sends in a session.
MaxLines == 2
\* Most connections made to the listener.
MaxConns == 3

(***************************************************************************)
(* Strings.                                                                *)
(***************************************************************************)
None == <<>>
Some(x) == <<x>>

\* All sequences over alphabet A of length at most n.
RECURSIVE StringsUpTo(_, _)
StringsUpTo(A, n) ==
    IF n = 0 THEN {<<>>}
    ELSE LET shorter == StringsUpTo(A, n - 1)
         IN  shorter \cup {Append(s, a) : s \in shorter, a \in A}

CRLF == <<13, 10>>  \* "\r\n"
\* connection::DOMAIN (DOMAIN is a reserved word here).
CONNECTION_DOMAIN == <<101, 120, 97, 109, 112, 108, 101, 46, 99, 111, 109>>  \* "example.com"
QUIT == <<81, 85, 73, 84>>  \* "QUIT"

\* An ASCII check that looks at the first byte only.
is_ascii_first_byte(s) == Len(s) = 0 \/ s[1] < 128

\* str::is_ascii / IntoAsciiString: every byte is below 0x80.
is_ascii(s) == \A i \in 1..Len(s) : s[i] < 128

\* ends_with that compares the last byte only.
ends_with_last_byte(s, suffix) ==
    /\ Len(s) >= 1
    /\ Len(suffix) >= 1
    /\ s[Len(s)] = suffix[Len(suffix)]

\* str::ends_with.
ends_with(s, suffix) ==
    /\ Len(s) >= Len(suffix)
    /\ SubSeq(s, Len(s) - Len(suffix) + 1, Len(s)) = suffix

\* An upper-casing that leaves every byte as it is.
to_ascii_uppercase_noop(b) == b

\* u8::to_ascii_uppercase, and make_ascii_uppercase over a whole slice.
to_ascii_uppercase(b) == IF b >= 97 /\ b <= 122 THEN b - 32 ELSE b
make_ascii_uppercase(s) == [i \in 1..Len(s) |-> to_ascii_uppercase(s[i])]

\* char::is_ascii_whitespace (std): space, tab, LF, FF, CR -- not vertical tab.
is_ascii_whitespace(b) == b \in {32, 9, 10, 12, 13}

\* A trailing-whitespace test that is char::is_ascii_whitespace once more.
is_whitespace_std(b) == b \in {32, 9, 10, 12, 13}

\* AsciiChar::is_whitespace (ascii crate, used by AsciiStr::trim_end):
\* space, tab, LF, vertical tab, FF, CR.
is_whitespace(b) == b \in {32, 9, 10, 11, 12, 13}

\* Indexing s[range]: Rust panics unless start <= end <= len.
slice_ok(s, range) == range[1] <= range[2] /\ range[2] <= Len(s)
slice(s, range) == SubSeq(s, range[1] + 1, range[2])

(***************************************************************************)
(* connection/command/mod.rs: parse.                                       *)
(***************************************************************************)
\* trim without its range.is_empty() check: Some(range) whenever start # end.
trim_unchecked(str) ==
    LET nonWs == {i \in 1..Len(str) : ~is_ascii_whitespace(str[i])}
        leading_whitespace_len ==
            IF nonWs = {} THEN Len(str)
            ELSE (CHOOSE i \in nonWs : \A j \in nonWs : i <= j) - 1
        kept == {i \in 1..Len(str) : ~is_whitespace(str[i])}
        trailing_whitespace_len ==
            IF kept = {} THEN 0
            ELSE CHOOSE i \in kept : \A j \in kept : j <= i
        range == <<leading_whitespace_len, trailing_whitespace_len>>
    IN  IF range[1] = range[2] THEN None ELSE Some(range)

\* Option<Range>: None when the string is empty or only whitespace.
trim(str) ==
    LET nonWs == {i \in 1..Len(str) : ~is_ascii_whitespace(str[i])}
        leading_whitespace_len ==
            IF nonWs = {} THEN Len(str)
            ELSE (CHOOSE i \in nonWs : \A j \in nonWs : i <= j) - 1
        kept == {i \in 1..Len(str) : ~is_whitespace(str[i])}
        trailing_whitespace_len ==
            IF kept = {} THEN 0
            ELSE CHOOSE i \in kept : \A j \in kept : j <= i
        range == <<leading_whitespace_len, trailing_whitespace_len>>
    IN  IF range[1] >= range[2] THEN None ELSE Some(range)

\* A split_command that calls every line the last one.
split_command_last_line(command) ==
    LET seps == {i \in 1..Len(command) : command[i] \in {32, 45}}
        found == seps # {}
        at == CHOOSE i \in seps : \A j \in seps : i <= j
        verb == IF found THEN <<0, at - 1>> ELSE <<0, Len(command)>>
        text == IF found THEN Some(<<(at - 1) + 1, Len(command)>>) ELSE None
    IN  [tag |-> "Ok", verb |-> verb, text |-> text, multiline |-> "LastLine"]

\* A split_command whose text range begins at the character split on.
split_command_text_at_separator(command) ==
    LET seps == {i \in 1..Len(command) : command[i] \in {32, 45}}
        found == seps # {}
        at == CHOOSE i \in seps : \A j \in seps : i <= j
        verb == IF found THEN <<0, at - 1>> ELSE <<0, Len(command)>>
        text == IF found THEN Some(<<at - 1, Len(command)>>) ELSE None
    IN  [tag |-> "Ok", verb |-> verb, text |-> text,
         multiline |-> IF found /\ command[at] = 45 THEN "HasNext" ELSE "LastLine"]

\* (verb range, Option<text range>, MultiLine), or the unreachable!() arm.
split_command(command) ==
    LET seps == {i \in 1..Len(command) : command[i] \in {32, 45}}
        found == seps # {}
        at == CHOOSE i \in seps : \A j \in seps : i <= j
        verb == IF found THEN <<0, at - 1>> ELSE <<0, Len(command)>>
        text == IF found THEN Some(<<(at - 1) + 1, Len(command)>>) ELSE None
        verbLen == verb[2] - verb[1]
        nth == IF verbLen + 1 <= Len(command) THEN Some(command[verbLen + 1]) ELSE None
    IN  IF nth = Some(45) THEN
            [tag |-> "Ok", verb |-> verb, text |-> text, multiline |-> "HasNext"]
        ELSE IF nth = Some(32) \/ nth = None THEN
            [tag |-> "Ok", verb |-> verb, text |-> text, multiline |-> "LastLine"]
        ELSE
            [tag |-> "Panic", why |-> "unreachable"]

\* Ranges left as they index the trimmed string.
adjust_for_trim_unshifted(range, trimmed) == range

adjust_for_trim(range, trimmed) == <<range[1] + trimmed[1], range[2] + trimmed[1]>>

\* An upper-casing of the whole line, whatever the range.
uppercase_whole(ln, range) == make_ascii_uppercase(ln)

\* line[verb.clone()].as_mut().make_ascii_uppercase(): the line with the bytes
\* of the range upper-cased in place.
uppercase_in(ln, range) ==
    SubSeq(ln, 1, range[1])
        \o make_ascii_uppercase(slice(ln, range))
        \o SubSeq(ln, range[2] + 1, Len(ln))

\* Result<Command, CommandError>, or a panic.
parse(ln) ==
    IF ln = <<>> THEN [tag |-> "Err", err |-> "Empty"]
    ELSE
    LET t == trim(ln) IN
    IF t = None THEN [tag |-> "Err", err |-> "OnlyWhitespace"]
    ELSE
    LET trimmed == t[1] IN
    IF ~slice_ok(ln, trimmed) THEN [tag |-> "Panic", why |-> "slice trimmed"]
    ELSE
    LET sc == split_command(slice(ln, trimmed)) IN
    IF sc.tag = "Panic" THEN sc
    ELSE
    LET verb == adjust_for_trim(sc.verb, trimmed)
        text == IF sc.text = None THEN None
                ELSE Some(adjust_for_trim(sc.text[1], trimmed))
    IN
    IF ~slice_ok(ln, verb) THEN [tag |-> "Panic", why |-> "slice verb"]
    ELSE
    [tag |-> "Ok",
     line |-> uppercase_in(ln, verb),
     trimmed |-> trimmed,
     verb |-> verb,
     text |-> text,
     multiline |-> sc.multiline]

\* Command::get and the accessors built on it; each slices self.line.
Command_get_ok(command, range) == slice_ok(command.line, range)
Command_verb(command) == slice(command.line, command.verb)
Command_trimmed(command) == slice(command.line, command.trimmed)
Command_text(command) ==
    IF command.text = None THEN None ELSE Some(slice(command.line, command.text[1]))

(***************************************************************************)
(* str/mod.rs: the line-ending normalisation behind every write.           *)
(***************************************************************************)
\* An insert that puts the element at the end, wherever it was meant to go.
insert_at_end(s, index, element) == Append(s, element)

\* Vec::insert(index, element); index is 0-based and at most the length.
insert(s, index, element) ==
    SubSeq(s, 1, index) \o <<element>> \o SubSeq(s, index + 1, Len(s))

\* The loop without its memory of the previous character: every LF gets a CR
\* put before it.
RECURSIVE crlf_loop_no_previous(_, _, _)
crlf_loop_no_previous(output, pos, previous) ==
    IF pos >= Len(output) THEN output
    ELSE
    LET character == output[pos + 1]
        peekIsLf == pos + 1 < Len(output) /\ output[pos + 2] = 10
    IN  IF character = 10 THEN
            crlf_loop_no_previous(insert(output, pos, 13), pos + 2, 10)
        ELSE IF character = 13 /\ ~peekIsLf THEN
            crlf_loop_no_previous(insert(output, pos + 1, 10), pos + 2, 10)
        ELSE
            crlf_loop_no_previous(output, pos + 1, character)

\* The while-let loop of replace_endings_with_crlf: pos is where the iterator
\* stands in output (0-based), previous is -1 for None.
RECURSIVE crlf_loop(_, _, _)
crlf_loop(output, pos, previous) ==
    IF pos >= Len(output) THEN output
    ELSE
    LET character == output[pos + 1]
        peekIsLf == pos + 1 < Len(output) /\ output[pos + 2] = 10
    IN  IF character = 10 /\ previous # 13 THEN
            crlf_loop(insert(output, pos, 13), pos + 2, 10)
        ELSE IF character = 13 /\ ~peekIsLf THEN
            crlf_loop(insert(output, pos + 1, 10), pos + 2, 10)
        ELSE
            crlf_loop(output, pos + 1, character)

\* A normalisation that hands the string back as borrowed.
replace_endings_borrowed(string) == string

replace_endings_with_crlf(string) == crlf_loop(string, 0, -1)

\* An SmtpString::new that normalises without the ASCII check.
SmtpString_new_unchecked(str) ==
    [tag |-> "Ok", str |-> replace_endings_with_crlf(str)]

\* SmtpString::new: Err on non-ASCII input, else the normalised string.
SmtpString_new(str) ==
    IF ~is_ascii(str) THEN [tag |-> "Err"]
    ELSE [tag |-> "Ok", str |-> replace_endings_with_crlf(str)]

\* max_lengths::REPLY_LINE, the capacity write_line! gives its RawSmtpStr.
REPLY_LINE == 512

\* The loop stopping quietly, with what it has, once the buffer is full.
RECURSIVE raw_loop_truncating(_, _, _, _, _, _)
raw_loop_truncating(string, index, output_index, buffer, len, previous) ==
    IF index >= Len(string) THEN [tag |-> "Ok", buffer |-> buffer, len |-> len]
    ELSE
    LET char == string[index + 1]
        cap == Len(buffer)
        nextIsLf == index + 1 < Len(string) /\ string[index + 2] = 10
        full == [tag |-> "Ok", buffer |-> buffer, len |-> len]
    IN  IF char = 10 /\ previous # 13 THEN
            IF output_index + 1 >= cap THEN full
            ELSE raw_loop_truncating(string, index + 1, output_index + 2,
                          [buffer EXCEPT ![output_index + 1] = 13,
                                         ![output_index + 2] = char],
                          len + 2, char)
        ELSE IF char = 13 /\ ~nextIsLf THEN
            IF output_index + 1 >= cap THEN full
            ELSE raw_loop_truncating(string, index + 1, output_index + 2,
                          [buffer EXCEPT ![output_index + 1] = char,
                                         ![output_index + 2] = 10],
                          len + 2, char)
        ELSE
            IF output_index >= cap THEN full
            ELSE raw_loop_truncating(string, index + 1, output_index + 1,
                          [buffer EXCEPT ![output_index + 1] = char],
                          len + 1, char)

\* The while loop of RawSmtpStr::new_from_ascii over a buffer of cap chars.
\* A write to buffer[output_index] with output_index >= cap panics.
RECURSIVE raw_loop(_, _, _, _, _, _)
raw_loop(string, index, output_index, buffer, len, previous) ==
    IF index >= Len(string) THEN [tag |-> "Ok", buffer |-> buffer, len |-> len]
    ELSE
    LET char == string[index + 1]
        cap == Len(buffer)
        nextIsLf == index + 1 < Len(string) /\ string[index + 2] = 10
    IN  IF char = 10 /\ previous # 13 THEN
            IF output_index + 1 >= cap THEN [tag |-> "Panic", why |-> "buffer index"]
            ELSE raw_loop(string, index + 1, output_index + 2,
                          [buffer EXCEPT ![output_index + 1] = 13,
                                         ![output_index + 2] = char],
                          len + 2, char)
        ELSE IF char = 13 /\ ~nextIsLf THEN
            IF output_index + 1 >= cap THEN [tag |-> "Panic", why |-> "buffer index"]
            ELSE raw_loop(string, index + 1, output_index + 2,
                          [buffer EXCEPT ![output_index + 1] = char,
                                         ![output_index + 2] = 10],
                          len + 2, char)
        ELSE
            IF output_index >= cap THEN [tag |-> "Panic", why |-> "buffer index"]
            ELSE raw_loop(string, index + 1, output_index + 1,
                          [buffer EXCEPT ![output_index + 1] = char],
                          len + 1, char)

\* RawSmtpStr::new_zeroed: the buffer filled with AsciiChar::_0, len 0.
RawSmtpStr_new_zeroed(cap) == [i \in 1..cap |-> 48]

RawSmtpStr_new_from_ascii(string, cap) ==
    IF ~(Len(string) <= cap) THEN [tag |-> "Panic", why |-> "assert len"]
    ELSE raw_loop(string, 0, 0, RawSmtpStr_new_zeroed(cap), 0, -1)

\* RawSmtpStr::new: panics on non-ASCII input.
RawSmtpStr_new(str, cap) ==
    IF is_ascii(str) THEN RawSmtpStr_new_from_ascii(str, cap)
    ELSE [tag |-> "Panic", why |-> "provided invalid ASCII"]

\* RawSmtpStr::as_bytes: buffer[..len].
RawSmtpStr_as_bytes(raw) == SubSeq(raw.buffer, 1, raw.len)

(***************************************************************************)
(* str.rs: SmtpStr and is_smtp_str as they stand in that file.  A string   *)
(* is the sequence of its characters; for an ASCII string the positions    *)
(* char_indices gives are those very indices.                              *)
(***************************************************************************)
\* The first loop of mutate_into: the 0-based indices of every LF whose
\* previous character is not CR, in order.
RECURSIVE lf_indices(_, _, _)
lf_indices(str, index, previous) ==
    IF index >= Len(str) THEN <<>>
    ELSE LET char == str[index + 1]
         IN  (IF char = 10 /\ previous # 13 THEN <<index>> ELSE <<>>)
                 \o lf_indices(str, index + 1, char)

\* The second loop of mutate_into: str.insert(index, CR) for each recorded
\* index in turn, every one of them as it was recorded.
RECURSIVE insert_each(_, _, _)
insert_each(str, indices, k) ==
    IF k > Len(indices) THEN str
    ELSE insert_each(insert(str, indices[k], 13), indices, k + 1)

\* SmtpStr::mutate_into: Ok(the mutated string) or Err(AsAsciiStrError).
mutate_into(str) ==
    LET mutated == insert_each(str, lf_indices(str, 0, 32), 1)
    IN  IF is_ascii(mutated) THEN [tag |-> "Ok", str |-> mutated] ELSE [tag |-> "Err"]

\* is_smtp_str::has_non_crlf, from the 0-based position index on.  A CR takes
\* the character after it out of the iterator as well.
RECURSIVE has_non_crlf(_, _, _)
has_non_crlf(str, index, previous) ==
    IF index >= Len(str) THEN FALSE
    ELSE LET char == str[index + 1] IN
         IF char = 10 /\ previous # 13 THEN TRUE
         ELSE IF char = 13 THEN
             LET next_is_lf == index + 1 < Len(str) /\ str[index + 2] = 10
             IN  IF ~next_is_lf THEN TRUE
                 ELSE has_non_crlf(str, index + 2, char)
         ELSE has_non_crlf(str, index + 1, char)

is_smtp_str(str) == is_ascii(str) /\ ~has_non_crlf(str, 0, 32)

(***************************************************************************)
(* lib.rs: the write macros.  ok says whether the transport takes the      *)
(* write; a failed write_all leaves no complete chunk on the wire.  The    *)
(* result is [written: the chunks written, res: "Ok" | "Err"].             *)
(***************************************************************************)
\* write_line!(writer, literal): the literal and CRLF through RawSmtpStr::new,
\* evaluated in a const item.
write_line(str, ok) ==
    LET STR == RawSmtpStr_new(str \o CRLF, REPLY_LINE)
    IN  IF STR.tag = "Panic" THEN [written |-> <<>>, res |-> "Panic"]
        ELSE IF ok THEN [written |-> <<RawSmtpStr_as_bytes(STR)>>, res |-> "Ok"]
        ELSE [written |-> <<>>, res |-> "Err"]

\* A write_fmt_line! that sends the formatted text and CRLF as they are.
write_fmt_line_raw(formatted, ok) ==
    IF ~is_ascii(formatted) THEN [written |-> <<>>, res |-> "Err"]
    ELSE IF ok THEN [written |-> <<formatted \o CRLF>>, res |-> "Ok"]
    ELSE [written |-> <<>>, res |-> "Err"]

\* write_fmt_line!(writer, fmt, items): formatted is format!(fmt, items).
write_fmt_line(formatted, ok) ==
    LET s == SmtpString_new(formatted \o CRLF)
    IN  IF s.tag = "Err" THEN [written |-> <<>>, res |-> "Err"]
        ELSE IF ok THEN [written |-> <<s.str>>, res |-> "Ok"]
        ELSE [written |-> <<>>, res |-> "Err"]

(***************************************************************************)
(* Reply texts.                                                            *)
(***************************************************************************)
s_221_Bye == <<50, 50, 49, 32, 66, 121, 101>>  \* "221 Bye"
s_500_Syntax_error ==  \* "500 Syntax error - "
    <<53, 48, 48, 32, 83, 121, 110, 116, 97, 120, 32, 101, 114, 114, 111, 114, 32, 45, 32>>
s_no_trailing_CRLF ==  \* "no trailing CRLF"
    <<110, 111, 32, 116, 114, 97, 105, 108, 105, 110, 103, 32, 67, 82, 76, 70>>
s_invalid_character ==  \* "invalid character"
    <<105, 110, 118, 97, 108, 105, 100, 32, 99, 104, 97, 114, 97, 99, 116, 101, 114>>
s_empty_command ==  \* "empty command"
    <<101, 109, 112, 116, 121, 32, 99, 111, 109, 109, 97, 110, 100>>
s_only_whitespace ==  \* "command consists only of whitespace"
    <<99, 111, 109, 109, 97, 110, 100, 32, 99, 111, 110, 115, 105, 115, 116, 115, 32,
      111, 110, 108, 121, 32, 111, 102, 32, 119, 104, 105, 116, 101, 115, 112, 97, 99, 101>>
s_500_not_recognized ==  \* "500 Command not recognized"
    <<53, 48, 48, 32, 67, 111, 109, 109, 97, 110, 100, 32, 110, 111, 116, 32, 114, 101,
      99, 111, 103, 110, 105, 122, 101, 100>>
s_502_not_implemented ==  \* "502 Command not implemented"
    <<53, 48, 50, 32, 67, 111, 109, 109, 97, 110, 100, 32, 110, 111, 116, 32, 105, 109,
      112, 108, 101, 109, 101, 110, 116, 101, 100>>
s_unterminated ==  \* "unterminated '[' in address literal"
    <<117, 110, 116, 101, 114, 109, 105, 110, 97, 116, 101, 100, 32, 39, 91, 39, 32, 105,
      110, 32, 97, 100, 100, 114, 101, 115, 115, 32, 108, 105, 116, 101, 114, 97, 108>>
s_220 == <<50, 50, 48, 32>>  \* "220 "
s_ready_plain ==  \* " SMTP service ready"
    <<32, 83, 77, 84, 80, 32, 115, 101, 114, 118, 105, 99, 101, 32, 114, 101, 97, 100, 121>>
s_ready ==  \* " SMTP testing service ready"
    <<32, 83, 77, 84, 80, 32, 116, 101, 115, 116, 105, 110, 103, 32, 115, 101, 114, 118,
      105, 99, 101, 32, 114, 101, 97, 100, 121>>
s_250 == <<50, 53, 48, 32>>  \* "250 "
s_greets == <<32, 103, 114, 101, 101, 116, 115, 32>>  \* " greets "
s_client == <<99, 108, 105, 101, 110, 116>>  \* "client"

\* impl Display for CommandError.
CommandError_fmt(err) ==
    IF err = "Empty" THEN s_empty_command ELSE s_only_whitespace

(***************************************************************************)
(* connection/command/commands.rs: the handlers.  Each returns             *)
(* [written, ret: "Keep" | "Close" | "Err" | "Panic", reason].             *)
(***************************************************************************)
Keep(written) == [written |-> written, ret |-> "Keep", reason |-> "none"]
Close(written, reason) == [written |-> written, ret |-> "Close", reason |-> reason]
IoErr(written) == [written |-> written, ret |-> "Err", reason |-> "none"]
Panicked(written) == [written |-> written, ret |-> "Panic", reason |-> "none"]

\* What `write!(...)?; Ok(then)` returns for the write result w.
after_write(w, then) ==
    IF w.res = "Ok" THEN [then EXCEPT !.written = w.written]
    ELSE IF w.res = "Panic" THEN Panicked(w.written)
    ELSE IoErr(w.written)

\* syntax_err_and_return! (commands.rs) and err_and_return! (command/mod.rs).
syntax_err_and_return(error, ok) ==
    after_write(write_fmt_line(s_500_Syntax_error \o error, ok), Keep(<<>>))

unrecognized(command, ok) ==
    after_write(write_fmt_line(s_500_not_recognized, ok), Keep(<<>>))

not_implemented(command, ok) ==
    after_write(write_fmt_line(s_502_not_implemented, ok), Keep(<<>>))

\* str::split_once(c): the index (1-based) of the first c, 0 when there is none.
find(s, c) ==
    LET at == {i \in 1..Len(s) : s[i] = c}
    IN  IF at = {} THEN 0 ELSE CHOOSE i \in at : \A j \in at : i <= j

\* hello::domain_or_literal: Ok(client identifier) or Err(message).
domain_or_literal(command_text) ==
    IF Len(command_text) >= 1 /\ command_text[1] = 91 THEN
        LET literal == SubSeq(command_text, 2, Len(command_text))
            close == find(literal, 93)
            literalLen == close - 1
        IN  IF close = 0 THEN [tag |-> "Err", err |-> s_unterminated]
            ELSE [tag |-> "Ok", str |-> SubSeq(command_text, 1, literalLen + 1)]
    ELSE
        LET space == find(command_text, 32)
        IN  IF space = 0 THEN [tag |-> "Ok", str |-> command_text]
            ELSE [tag |-> "Ok", str |-> SubSeq(command_text, 1, space - 1)]

hello(command, ok) ==
    IF command.text = None THEN
        after_write(write_fmt_line(s_250 \o CONNECTION_DOMAIN \o s_greets \o s_client, ok),
                    Keep(<<>>))
    ELSE IF ~Command_get_ok(command, command.text[1]) THEN Panicked(<<>>)
    ELSE
        LET d == domain_or_literal(Command_text(command)[1])
        IN  IF d.tag = "Err" THEN syntax_err_and_return(d.err, ok)
            ELSE after_write(
                     write_fmt_line(s_250 \o CONNECTION_DOMAIN \o s_greets \o d.str, ok),
                     Keep(<<>>))

quit(command, ok) == after_write(write_line(s_221_Bye, ok), Close(<<>>, "Quit"))

(***************************************************************************)
(* connection/command/mod.rs: handle, the reply to one line.               *)
(***************************************************************************)
\* A handle that looks for non-ASCII characters before it looks at the line
\* ending.
command_handle_ascii_first(ln, ok) ==
    IF ~is_ascii(ln) THEN syntax_err_and_return(s_invalid_character, ok)
    ELSE IF ~ends_with(ln, CRLF) THEN syntax_err_and_return(s_no_trailing_CRLF, ok)
    ELSE
    LET p == parse(ln) IN
    IF p.tag = "Err" THEN syntax_err_and_return(CommandError_fmt(p.err), ok)
    ELSE IF p.tag = "Panic" THEN Panicked(<<>>)
    ELSE IF ~Command_get_ok(p, p.verb) THEN Panicked(<<>>)
    ELSE IF Command_verb(p) = QUIT THEN
        after_write(write_line(s_221_Bye, ok), Close(<<>>, "Quit"))
    ELSE Keep(<<>>)

command_handle(ln, ok) ==
    IF ~ends_with(ln, CRLF) THEN syntax_err_and_return(s_no_trailing_CRLF, ok)
    ELSE IF ~is_ascii(ln) THEN syntax_err_and_return(s_invalid_character, ok)
    ELSE
    LET p == parse(ln) IN
    IF p.tag = "Err" THEN syntax_err_and_return(CommandError_fmt(p.err), ok)
    ELSE IF p.tag = "Panic" THEN Panicked(<<>>)
    ELSE IF ~Command_get_ok(p, p.verb) THEN Panicked(<<>>)
    ELSE IF Command_verb(p) = QUIT THEN
        after_write(write_line(s_221_Bye, ok), Close(<<>>, "Quit"))
    ELSE Keep(<<>>)

(***************************************************************************)
(* connection/command.rs: the handler and the parser as they stand in that *)
(* file.                                                                   *)
(***************************************************************************)
\* (verb range, Option<text range>): the text range begins at the separator.
command_rs_split_command(command) ==
    LET seps == {i \in 1..Len(command) : command[i] \in {32, 45}}
        found == seps # {}
        at == CHOOSE i \in seps : \A j \in seps : i <= j
    IN  IF found THEN [verb |-> <<0, at - 1>>, text |-> Some(<<at - 1, Len(command)>>)]
        ELSE [verb |-> <<0, Len(command)>>, text |-> None]

\* Result<Command, CommandError>, or a panic.  The verb and text ranges stay
\* as they index the trimmed string.
command_rs_parse(ln) ==
    IF ln = <<>> THEN [tag |-> "Err", err |-> "Empty"]
    ELSE
    LET t == trim(ln) IN
    IF t = None THEN [tag |-> "Err", err |-> "OnlyWhitespace"]
    ELSE
    LET trimmed == t[1] IN
    IF ~slice_ok(ln, trimmed) THEN [tag |-> "Panic", why |-> "slice trimmed"]
    ELSE
    LET trimmed_str == slice(ln, trimmed)
        sc == command_rs_split_command(trimmed_str)
        verbLen == sc.verb[2] - sc.verb[1]
    IN
    \* trimmed_str.chars().nth(verb.len()).expect(..)
    IF verbLen + 1 > Len(trimmed_str) THEN
        [tag |-> "Panic", why |-> "a string must contain a substring of itself"]
    ELSE IF trimmed_str[verbLen + 1] \notin {45, 32} THEN
        [tag |-> "Panic", why |-> "unreachable"]
    ELSE IF ~slice_ok(ln, sc.verb) THEN [tag |-> "Panic", why |-> "slice verb"]
    ELSE
    [tag |-> "Ok",
     line |-> uppercase_in(ln, sc.verb),
     trimmed |-> trimmed,
     verb |-> sc.verb,
     text |-> sc.text,
     multiline |-> IF trimmed_str[verbLen + 1] = 45 THEN "HasNext" ELSE "LastLine"]

\* handle of connection/command.rs: the reply to one line.
command_rs_handle(ln, ok) ==
    IF ~ends_with(ln, CRLF) THEN syntax_err_and_return(s_no_trailing_CRLF, ok)
    ELSE IF ~is_ascii(ln) THEN syntax_err_and_return(s_invalid_character, ok)
    ELSE
    LET p == command_rs_parse(ln) IN
    IF p.tag = "Err" THEN syntax_err_and_return(CommandError_fmt(p.err), ok)
    ELSE IF p.tag = "Panic" THEN Panicked(<<>>)
    ELSE IF ~Command_get_ok(p, p.verb) THEN Panicked(<<>>)
    ELSE IF Command_verb(p) = QUIT THEN
        after_write(write_line(s_221_Bye, ok), Close(<<>>, "Quit"))
    ELSE Keep(<<>>)

(***************************************************************************)
(* lib.rs read_line!: AsyncBufReadExt::read_line into a String.  It takes  *)
(* the bytes up to and including the first LF (or up to end of stream) and *)
(* fails with InvalidData when they are not valid UTF-8.                   *)
(***************************************************************************)
is_cont(s, i) == i <= Len(s) /\ s[i] >= 128 /\ s[i] <= 191

\* core::str::from_utf8 succeeds on s, read from position i (1-based).
RECURSIVE utf8_from(_, _)
utf8_from(s, i) ==
    IF i > Len(s) THEN TRUE
    ELSE
    LET b == s[i] IN
    IF b < 128 THEN utf8_from(s, i + 1)
    ELSE IF b >= 194 /\ b <= 223 THEN
        is_cont(s, i + 1) /\ utf8_from(s, i + 2)
    ELSE IF b >= 224 /\ b <= 239 THEN
        /\ is_cont(s, i + 1) /\ is_cont(s, i + 2)
        /\ (b = 224 => s[i + 1] >= 160)
        /\ (b = 237 => s[i + 1] <= 159)
        /\ utf8_from(s, i + 3)
    ELSE IF b >= 240 /\ b <= 244 THEN
        /\ is_cont(s, i + 1) /\ is_cont(s, i + 2) /\ is_cont(s, i + 3)
        /\ (b = 240 => s[i + 1] >= 144)
        /\ (b = 244 => s[i + 1] <= 143)
        /\ utf8_from(s, i + 4)
    ELSE FALSE

is_utf8(s) == utf8_from(s, 1)

(***************************************************************************)
(* What a client may send.  A line is leading whitespace, a verb, the rest *)
(* of the command and a terminator; read_line never returns bytes after an *)
(* LF, so LF occurs only as the last byte.                                 *)
(***************************************************************************)
Leads == {<<>>, <<32, 9>>}

QuitVerbs == {<<81, 85, 73, 84>>, <<113, 117, 105, 116>>, <<81, 117, 73, 116>>}  \* QUIT quit QuIt

NotImplementedVerbs ==
    {<<69, 72, 76, 79>>, <<77, 65, 73, 76>>, <<82, 67, 80, 84>>, <<68, 65, 84, 65>>,
     <<82, 83, 69, 84>>, <<78, 79, 79, 80>>, <<86, 82, 70, 89>>,  \* EHLO MAIL RCPT DATA RSET NOOP VRFY
     <<109, 97, 105, 108>>, <<86, 114, 102, 121>>}                \* mail Vrfy

HeloVerbs == {<<72, 69, 76, 79>>, <<104, 101, 108, 111>>}  \* HELO helo

OtherVerbs == {<<70, 79, 79>>, <<102, 111, 111>>, <<81, 85, 73, 84, 83>>, <<81, 85, 73>>}  \* FOO foo QUITS QUI

Verbs == QuitVerbs \cup NotImplementedVerbs \cup HeloVerbs \cup OtherVerbs \cup {<<>>}

\* What follows the verb: nothing, a space, " there", "-x", " [1.2]", " [1.2",
\* " a\rb", " \xC3\xA9" (U+00E9 in UTF-8) and " \xE9" (not UTF-8).
Rests ==
    {<<>>, <<32>>, <<32, 116, 104, 101, 114, 101>>, <<45, 120>>,
     <<32, 91, 49, 46, 50, 93>>, <<32, 91, 49, 46, 50>>, <<32, 97, 13, 98>>,
     <<32, 195, 169>>, <<32, 233>>}

Terms == {CRLF, <<10>>, <<>>}

ClientLines ==
    {lead \o verb \o rest \o term :
        lead \in Leads, verb \in Verbs, rest \in Rests, term \in Terms} \ {<<>>}

CompleteLines == {l \in ClientLines : l[Len(l)] = 10}
Fragments == {l \in ClientLines : l[Len(l)] # 10}

(***************************************************************************)
(* The client and the transport.                                           *)
(***************************************************************************)
\* The client puts one more complete line on the wire (finishing a partial one).
ClientSend ==
    /\ ~clientClosed
    /\ sent < MaxLines
    /\ sent' = sent + 1
    /\ fragment' = FALSE
    /\ UNCHANGED <<pc, clientClosed, lineNo, handled, line, greeting, out, shouldClose,
                   closeReason, ret, lastRead, timerFired>>
    /\ UNCHANGED <<fnVars, listenVars>>

\* The client puts bytes without an LF on the wire.
ClientSendPartial ==
    /\ ~clientClosed
    /\ ~fragment
    /\ fragment' = TRUE
    /\ UNCHANGED <<pc, sent, clientClosed, lineNo, handled, line, greeting, out,
                   shouldClose, closeReason, ret, lastRead, timerFired>>
    /\ UNCHANGED <<fnVars, listenVars>>

\* The client closes its write side.
ClientClose ==
    /\ ~clientClosed
    /\ clientClosed' = TRUE
    /\ UNCHANGED <<pc, sent, fragment, lineNo, handled, line, greeting, out,
                   shouldClose, closeReason, ret, lastRead, timerFired>>
    /\ UNCHANGED <<fnVars, listenVars>>

(***************************************************************************)
(* connection/mod.rs: handle, one session.                                 *)
(***************************************************************************)
\* A return that drops the CloseReason the loop broke with.
Return_without_reason(value, reason) ==
    /\ pc' = "closed"
    /\ ret' = value
    /\ closeReason' = "none"

\* handle returns: the value returned and, for a break, the CloseReason.
Return(value, reason) ==
    /\ pc' = "closed"
    /\ ret' = value
    /\ closeReason' = reason

\* A greeting written without `?`: the session goes on to read whether or not
\* the write went through.
Greet_ignoring_failure ==
    /\ pc = "accepted"
    /\ \E addrOk \in BOOLEAN, ok \in BOOLEAN :
        LET w == write_fmt_line(s_220 \o CONNECTION_DOMAIN \o s_ready, ok)
        IN  IF ~addrOk THEN
                /\ greeting' = <<>>
                /\ Return("Err", "none")
            ELSE
                /\ greeting' = w.written
                /\ pc' = "reading"
                /\ UNCHANGED <<ret, closeReason>>
    /\ UNCHANGED <<sent, fragment, clientClosed, lineNo, handled, line, out, shouldClose,
                   lastRead, timerFired>>
    /\ UNCHANGED <<fnVars, listenVars>>

\* local_addr()?, peer_addr()?, then the greeting.
Greet ==
    /\ pc = "accepted"
    /\ \E addrOk \in BOOLEAN, ok \in BOOLEAN :
        LET w == write_fmt_line(s_220 \o CONNECTION_DOMAIN \o s_ready, ok)
        IN  IF ~addrOk THEN
                /\ greeting' = <<>>
                /\ Return("Err", "none")
            ELSE
                /\ greeting' = w.written
                /\ IF w.res = "Ok"
                   THEN pc' = "reading" /\ UNCHANGED <<ret, closeReason>>
                   ELSE Return("Err", "none")
    /\ UNCHANGED <<sent, fragment, clientClosed, lineNo, handled, line, out, shouldClose,
                   lastRead, timerFired>>
    /\ UNCHANGED <<fnVars, listenVars>>

\* read_line_or_break! got Ok(line): read_line returned the bytes raw.
GotLine(raw) ==
    IF is_utf8(raw) THEN
        /\ line' = raw
        /\ lineNo' = lineNo + 1
        /\ out' = <<>>
        /\ shouldClose' = "none"
        /\ pc' = "handling"
        /\ UNCHANGED <<ret, closeReason>>
    ELSE
        \* read_line fails with InvalidData; `?` returns it.
        /\ line' = raw
        /\ out' = <<>>
        /\ shouldClose' = "none"
        /\ Return("Err", "none")
        /\ UNCHANGED lineNo

\* lib.rs read_line!: reader.read_line(&mut buffer) came to `result`, either
\* [tag "Ok", read_bytes, buffer] or [tag "Err", kind].  This variant hands
\* back the buffer whatever the number of bytes read.
read_line_any_count(result) ==
    IF result.tag = "Ok" THEN [tag |-> "Ok", line |-> result.buffer] ELSE result

\* lib.rs read_line!: zero bytes read become Err(ConnectionAborted).
read_line(result) ==
    IF result.tag = "Ok" THEN
        IF result.read_bytes = 0 THEN [tag |-> "Err", kind |-> "ConnectionAborted"]
        ELSE [tag |-> "Ok", line |-> result.buffer]
    ELSE result

\* read_line_or_break! reporting an elapsed timeout as an error of the read.
read_line_or_break_elapsed_err(elapsed, result) ==
    IF elapsed THEN [tag |-> "Err", kind |-> "TimedOut"]
    ELSE LET r == read_line(result)
         IN  IF r.tag = "Ok" THEN r
             ELSE IF r.kind = "ConnectionAborted"
             THEN [tag |-> "Break", reason |-> "ClosedByClient"]
             ELSE [tag |-> "Err", kind |-> r.kind]

\* read_line_or_break!: timeout(SERVER_TIMEOUT, read_line!(reader)).await,
\* giving Ok(line), Err(kind) for `?`, or a break with a CloseReason.
read_line_or_break(elapsed, result) ==
    IF elapsed THEN [tag |-> "Break", reason |-> "TimedOut"]
    ELSE LET r == read_line(result)
         IN  IF r.tag = "Ok" THEN r
             ELSE IF r.kind = "ConnectionAborted"
             THEN [tag |-> "Break", reason |-> "ClosedByClient"]
             ELSE [tag |-> "Err", kind |-> r.kind]

\* `let line = read_line_or_break!(reader)?`: go on with the line, break out
\* of the loop (handle returns Ok(())) or return the error.
AfterRead(r) ==
    IF r.tag = "Ok" THEN GotLine(r.line)
    ELSE /\ IF r.tag = "Break" THEN Return("Ok", r.reason) ELSE Return("Err", "none")
         /\ UNCHANGED <<lineNo, line, out, shouldClose>>

\* The io::ErrorKinds a failed read of the TcpStream comes with.
ErrorKinds == {"ConnectionAborted", "ConnectionReset"}

\* A read that does not wait for the line in hand to be handled.
ReadLine_pipelined ==
    /\ pc \in {"reading", "handling"}
    /\ lineNo < sent
    /\ \E raw \in CompleteLines :
        /\ GotLine(raw)
        /\ lastRead' = IF is_utf8(raw) THEN "Bytes" ELSE "InvalidData"
    /\ timerFired' = FALSE
    /\ UNCHANGED <<sent, fragment, clientClosed, handled, greeting>>
    /\ UNCHANGED <<fnVars, listenVars>>

\* A read that also goes ahead once the session has ended.
ReadLine_after_close ==
    /\ pc \in {"reading", "closed"}
    /\ lineNo < sent
    /\ \E raw \in CompleteLines :
        /\ GotLine(raw)
        /\ lastRead' = IF is_utf8(raw) THEN "Bytes" ELSE "InvalidData"
    /\ timerFired' = FALSE
    /\ UNCHANGED <<sent, fragment, clientClosed, handled, greeting>>
    /\ UNCHANGED <<fnVars, listenVars>>

\* A read under one timer made for the whole session: the timer is not made
\* anew when the next read begins.
ReadLine_one_deadline ==
    /\ pc = "reading"
    /\ lineNo < sent
    /\ \E raw \in CompleteLines :
        /\ GotLine(raw)
        /\ lastRead' = IF is_utf8(raw) THEN "Bytes" ELSE "InvalidData"
    /\ UNCHANGED timerFired
    /\ UNCHANGED <<sent, fragment, clientClosed, handled, greeting>>
    /\ UNCHANGED <<fnVars, listenVars>>

\* A complete line is on the wire.
ReadLine ==
    /\ pc = "reading"
    /\ lineNo < sent
    /\ \E raw \in CompleteLines :
        /\ GotLine(raw)
        /\ lastRead' = IF is_utf8(raw) THEN "Bytes" ELSE "InvalidData"
    /\ timerFired' = FALSE
    /\ UNCHANGED <<sent, fragment, clientClosed, handled, greeting>>
    /\ UNCHANGED <<fnVars, listenVars>>

\* The stream ends after bytes without an LF: read_line returns them.
ReadLastFragment ==
    /\ pc = "reading"
    /\ lineNo = sent /\ fragment /\ clientClosed
    /\ \E raw \in Fragments :
        /\ GotLine(raw)
        /\ lastRead' = IF is_utf8(raw) THEN "Bytes" ELSE "InvalidData"
    /\ timerFired' = FALSE
    /\ fragment' = FALSE
    /\ UNCHANGED <<sent, clientClosed, handled, greeting>>
    /\ UNCHANGED <<fnVars, listenVars>>

\* read_line reads zero bytes: ConnectionAborted, break ClosedByClient.
ReadEof ==
    /\ pc = "reading"
    /\ lineNo = sent /\ ~fragment /\ clientClosed
    /\ lastRead' = "Zero"
    /\ timerFired' = FALSE
    /\ AfterRead(read_line_or_break(FALSE,
            [tag |-> "Ok", read_bytes |-> 0, buffer |-> <<>>]))
    /\ UNCHANGED <<sent, fragment, clientClosed, handled, greeting>>
    /\ UNCHANGED <<fnVars, listenVars>>

\* The timer of timeout(SERVER_TIMEOUT, ..) fires while read_line waits for
\* the rest of a line.  The timer belongs to the one read: it is made when the
\* read begins and dropped when the read ends.
Elapse ==
    /\ pc = "reading"
    /\ lineNo = sent /\ ~clientClosed
    /\ ~timerFired
    /\ timerFired' = TRUE
    /\ UNCHANGED <<pc, sent, fragment, clientClosed, lineNo, handled, line, greeting, out,
                   shouldClose, closeReason, ret, lastRead>>
    /\ UNCHANGED <<fnVars, listenVars>>

\* No complete line within SERVER_TIMEOUT: break TimedOut.
ReadTimeout ==
    /\ pc = "reading"
    /\ lineNo = sent /\ ~clientClosed
    /\ timerFired
    /\ UNCHANGED timerFired
    /\ lastRead' = "Elapsed"
    /\ AfterRead(read_line_or_break(TRUE, [tag |-> "Pending"]))
    /\ UNCHANGED <<sent, fragment, clientClosed, handled, greeting>>
    /\ UNCHANGED <<fnVars, listenVars>>

\* The read fails: ConnectionAborted breaks with ClosedByClient, any other
\* kind is returned by `?`.
ReadError ==
    /\ pc = "reading"
    /\ \E kind \in ErrorKinds :
        /\ lastRead' = kind
        /\ AfterRead(read_line_or_break(FALSE, [tag |-> "Err", kind |-> kind]))
    /\ timerFired' = FALSE
    /\ UNCHANGED <<sent, fragment, clientClosed, handled, greeting>>
    /\ UNCHANGED <<fnVars, listenVars>>

\* command::handle(&mut write_stream, line).await? and the match on it.
HandleLine ==
    /\ pc = "handling"
    /\ \E ok \in BOOLEAN :
        LET r == command_handle(line, ok)
        IN  /\ out' = r.written
            /\ shouldClose' = r.ret
            /\ handled' = handled + 1
            /\ IF r.ret = "Keep" THEN pc' = "reading" /\ UNCHANGED <<ret, closeReason>>
               ELSE IF r.ret = "Close" THEN Return("Ok", r.reason)
               ELSE Return(r.ret, "none")
    /\ UNCHANGED <<sent, fragment, clientClosed, lineNo, line, greeting, lastRead, timerFired>>
    /\ UNCHANGED <<fnVars, listenVars>>

SessionInit ==
    /\ pc = "accepted"
    /\ sent = 0
    /\ fragment = FALSE
    /\ clientClosed = FALSE
    /\ lineNo = 0
    /\ handled = 0
    /\ line = <<>>
    /\ greeting = <<>>
    /\ out = <<>>
    /\ shouldClose = "none"
    /\ closeReason = "none"
    /\ ret = "none"
    /\ lastRead = "none"
    /\ timerFired = FALSE

FnIdle ==
    /\ fnpc = "idle"
    /\ input = <<>>
    /\ parsed = <<>>
    /\ reply = <<>>
    /\ smtp = <<>>
    /\ again = <<>>
    /\ padded = <<>>
    /\ rawStr = <<>>

\* No listener in the picture: one session, or one function, on its own.
ListenIdle ==
    /\ lpc = "off"
    /\ pending = 0
    /\ items = <<>>
    /\ sessions = <<>>

Init == SessionInit /\ FnIdle /\ ListenIdle

Next ==
    \/ ClientSend
    \/ ClientSendPartial
    \/ ClientClose
    \/ Greet
    \/ ReadLine
    \/ ReadLastFragment
    \/ ReadEof
    \/ Elapse
    \/ ReadTimeout
    \/ ReadError
    \/ HandleLine

Spec == Init /\ [][Next]_vars

(***************************************************************************)
(* parse and the command handlers applied to one input each.               *)
(***************************************************************************)
\* Space, dash, CR, LF, vertical tab, form feed and a letter.
Alphabet == {32, 45, 13, 10, 11, 12, 97}

\* '[', ']', space, CR and a letter: the characters domain_or_literal looks at.
HeloAlphabet == {91, 93, 32, 13, 97}

\* "HELO" or "helo", alone or followed by a space and an argument, then CRLF.
HeloInputs ==
    {verb \o rest \o CRLF :
        verb \in HeloVerbs,
        rest \in {<<>>} \cup {<<32>> \o t : t \in StringsUpTo(HeloAlphabet, MaxLen)}}

\* "QUIT" in its spellings, alone on a line.
QuitInputs == {verb \o CRLF : verb \in QuitVerbs}

FnInputs == StringsUpTo(Alphabet, MaxLen) \cup HeloInputs \cup QuitInputs

ApplyParse ==
    /\ fnpc = "start"
    /\ parsed' = parse(input)
    /\ fnpc' = "parsed"
    /\ UNCHANGED <<input, reply, smtp, again, padded, rawStr>>
    /\ UNCHANGED <<sessionVars, listenVars>>

Apply(handler, result) ==
    /\ fnpc = "parsed"
    /\ parsed.tag = "Ok"
    /\ reply' = result
    /\ fnpc' = handler
    /\ UNCHANGED <<input, parsed, smtp, again, padded, rawStr>>
    /\ UNCHANGED <<sessionVars, listenVars>>

\* Whitespace put before and after a command: nothing, space and tab, and
\* line-ending characters.
Prefixes == {<<>>, <<32, 9>>, <<10, 13>>}
Suffixes == {<<>>, <<9, 32>>, <<13, 10>>}

\* parse applied to the same input between a prefix and a suffix.
ApplyParsePadded ==
    /\ fnpc = "parsed"
    /\ \E p \in Prefixes, q \in Suffixes :
        padded' = [prefix |-> p, suffix |-> q, result |-> parse(p \o input \o q)]
    /\ fnpc' = "padded"
    /\ UNCHANGED <<input, parsed, reply, smtp, again, rawStr>>
    /\ UNCHANGED <<sessionVars, listenVars>>

\* handle of connection/command.rs applied to the same input.
ApplyCommandRsHandle ==
    /\ fnpc = "parsed"
    /\ \E ok \in BOOLEAN : reply' = command_rs_handle(input, ok)
    /\ fnpc' = "command_rs_handle"
    /\ UNCHANGED <<input, parsed, smtp, again, padded, rawStr>>
    /\ UNCHANGED <<sessionVars, listenVars>>

ApplyHello == \E ok \in BOOLEAN : Apply("hello", hello(parsed, ok))
ApplyQuit == \E ok \in BOOLEAN : Apply("quit", quit(parsed, ok))
ApplyUnrecognized == \E ok \in BOOLEAN : Apply("unrecognized", unrecognized(parsed, ok))
ApplyNotImplemented ==
    \E ok \in BOOLEAN : Apply("not_implemented", not_implemented(parsed, ok))

FnInit ==
    /\ SessionInit
    /\ ListenIdle
    /\ fnpc = "start"
    /\ input \in FnInputs
    /\ parsed = <<>>
    /\ reply = <<>>
    /\ smtp = <<>>
    /\ again = <<>>
    /\ padded = <<>>
    /\ rawStr = <<>>

FnNext ==
    \/ ApplyParse
    \/ ApplyCommandRsHandle
    \/ ApplyParsePadded
    \/ ApplyHello
    \/ ApplyQuit
    \/ ApplyUnrecognized
    \/ ApplyNotImplemented

SpecFn == FnInit /\ [][FnNext]_vars

(***************************************************************************)
(* SmtpString::new applied to one input, and once more to its own result.  *)
(***************************************************************************)
\* CR, LF, a letter and a byte that is not ASCII.
StrAlphabet == {13, 10, 97, 233}

StrInputs == StringsUpTo(StrAlphabet, MaxLen)

ApplySmtpStringNew ==
    /\ fnpc = "start"
    /\ smtp' = SmtpString_new(input)
    /\ fnpc' = "new"
    /\ UNCHANGED <<input, parsed, reply, again, padded, rawStr>>
    /\ UNCHANGED <<sessionVars, listenVars>>

ApplySmtpStringNewAgain ==
    /\ fnpc = "new"
    /\ smtp.tag = "Ok"
    /\ again' = SmtpString_new(smtp.str)
    /\ fnpc' = "again"
    /\ UNCHANGED <<input, parsed, reply, smtp, padded, rawStr>>
    /\ UNCHANGED <<sessionVars, listenVars>>

\* RawSmtpStr::new_from_ascii applied to the input, an AsciiStr, with a buffer
\* of cap characters; cap runs from too small for the input to large enough
\* for any result.
ApplyRawNewFromAscii ==
    /\ fnpc = "start"
    /\ is_ascii(input)
    /\ \E cap \in 0..(2 * Len(input)) :
        rawStr' = [cap |-> cap, result |-> RawSmtpStr_new_from_ascii(input, cap)]
    /\ fnpc' = "raw"
    /\ UNCHANGED <<input, parsed, reply, smtp, again, padded>>
    /\ UNCHANGED <<sessionVars, listenVars>>

\* SmtpStr::mutate_into applied to the input, an ASCII String.
ApplyMutateInto ==
    /\ fnpc = "start"
    /\ is_ascii(input)
    /\ smtp' = mutate_into(input)
    /\ fnpc' = "mutate_into"
    /\ UNCHANGED <<input, parsed, reply, again, padded, rawStr>>
    /\ UNCHANGED <<sessionVars, listenVars>>

\* is_smtp_str applied to the input.
ApplyIsSmtpStr ==
    /\ fnpc = "start"
    /\ smtp' = [tag |-> "Bool", value |-> is_smtp_str(input)]
    /\ fnpc' = "is_smtp_str"
    /\ UNCHANGED <<input, parsed, reply, again, padded, rawStr>>
    /\ UNCHANGED <<sessionVars, listenVars>>

StrInit ==
    /\ SessionInit
    /\ ListenIdle
    /\ fnpc = "start"
    /\ input \in StrInputs
    /\ parsed = <<>>
    /\ reply = <<>>
    /\ smtp = <<>>
    /\ again = <<>>
    /\ padded = <<>>
    /\ rawStr = <<>>

StrNext ==
    \/ ApplyRawNewFromAscii
    \/ ApplyMutateInto
    \/ ApplyIsSmtpStr
    \/ ApplySmtpStringNew
    \/ ApplySmtpStringNewAgain

SpecStr == StrInit /\ [][StrNext]_vars

(***************************************************************************)
(* The session and the command handlers side by side: everything that is   *)
(* written through write_line! and write_fmt_line!.                        *)
(***************************************************************************)
RepliesInit == Init \/ FnInit

RepliesNext ==
    \/ (fnpc = "idle" /\ Next)
    \/ FnNext

SpecReplies == RepliesInit /\ [][RepliesNext]_vars

(***************************************************************************)
(* lib.rs: listen, the stream of sessions.  Each poll of the stream runs   *)
(* the loop up to its next yield; a session is a spawned future that ends on*)
(* its own with Ok(()), an io::Error or a panic (a JoinError).             *)
(***************************************************************************)
SessionItem(id) == [tag |-> "Session", id |-> id]
ErrItem == [tag |-> "Err", id |-> 0]

\* What awaiting a Session handle gives once the session is over.
SessionResults == {"Ok", "Err", "Panic"}

\* A client connects to the listener's socket.
Connect ==
    /\ pending + Len(sessions) < MaxConns
    /\ pending' = pending + 1
    /\ UNCHANGED <<lpc, items, sessions>>
    /\ UNCHANGED <<sessionVars, fnVars>>

\* listener.accept().await is Ok: spawn connection::handle(stream) and yield
\* its JoinHandle.
Accept ==
    /\ lpc = "accepting"
    /\ pending > 0
    /\ pending' = pending - 1
    /\ sessions' = Append(sessions, "running")
    /\ items' = Append(items, SessionItem(Len(sessions) + 1))
    /\ UNCHANGED lpc
    /\ UNCHANGED <<sessionVars, fnVars>>

\* An accept that reports its error and goes round the loop again.
AcceptFail_and_go_on ==
    /\ lpc = "accepting"
    /\ Len(items) < MaxConns
    /\ items' = Append(items, ErrItem)
    /\ UNCHANGED <<lpc, pending, sessions>>
    /\ UNCHANGED <<sessionVars, fnVars>>

\* listener.accept().await is Err: `?` inside try_stream! yields the error and
\* ends the stream.
AcceptFail ==
    /\ lpc = "accepting"
    /\ items' = Append(items, ErrItem)
    /\ lpc' = "ended"
    /\ UNCHANGED <<pending, sessions>>
    /\ UNCHANGED <<sessionVars, fnVars>>

\* A session whose io::Error also ends the stream of listen.
SessionEnd_stopping_listener ==
    /\ \E k \in 1..Len(sessions), result \in SessionResults :
        /\ sessions[k] = "running"
        /\ sessions' = [sessions EXCEPT ![k] = result]
        /\ lpc' = IF result = "Err" THEN "ended" ELSE lpc
    /\ UNCHANGED <<pending, items>>
    /\ UNCHANGED <<sessionVars, fnVars>>

\* A spawned connection::handle future comes to its end, whatever the stream of
\* listen is doing.
SessionEnd ==
    /\ \E k \in 1..Len(sessions), result \in SessionResults :
        /\ sessions[k] = "running"
        /\ sessions' = [sessions EXCEPT ![k] = result]
    /\ UNCHANGED <<lpc, pending, items>>
    /\ UNCHANGED <<sessionVars, fnVars>>

ListenInit ==
    /\ SessionInit
    /\ FnIdle
    /\ lpc = "accepting"
    /\ pending = 0
    /\ items = <<>>
    /\ sessions = <<>>

ListenNext ==
    \/ Connect
    \/ Accept
    \/ AcceptFail
    \/ SessionEnd

SpecListen == ListenInit /\ [][ListenNext]_vars

(***************************************************************************)
(* Properties.                                                             *)
(***************************************************************************)

\* C1: for every ASCII line, parse returns a Command or a CommandError: it
\* never panics, never reaches unreachable!() and never slices out of bounds.
C1_ParseTotal ==
    fnpc # "start" => parsed.tag \in {"Ok", "Err"}

\* A line mixing dash, letter, space and a terminator has been parsed.
C1_Witness ==
    /\ fnpc = "parsed"
    /\ input = <<45, 97, 32, 10>>
    /\ parsed.tag = "Ok"

\* The properties' own reading of the strings involved.
AllAscii(l) == \A i \in 1..Len(l) : l[i] \in 0..127
EndsWithCrLf(l) == Len(l) >= 2 /\ l[Len(l) - 1] = 13 /\ l[Len(l)] = 10
BeginsWith(l, prefix) == Len(l) >= Len(prefix) /\ \A i \in 1..Len(prefix) : l[i] = prefix[i]

\* The last line read has been handled by command::handle, and the transport
\* took whatever was written for it.
Handled == lineNo > 0 /\ handled = lineNo /\ shouldClose \in {"Keep", "Close"}

\* A CRLF-terminated ASCII line with the given verbs, with or without
\* surrounding whitespace and argument text.
CommandLines(verbs) ==
    {l \in {lead \o verb \o rest \o CRLF :
                lead \in Leads, verb \in verbs, rest \in Rests} : AllAscii(l)}

Reply(text) == <<text \o CRLF>>

\* C2: every line read from the client is followed by a reply written before
\* the session reads again or ends, unless a timeout or a transport failure
\* cuts it off.
C2_EveryLineReplied == Handled => Len(out) >= 1

\* C3: lines are handled in the order received, the writes for line N complete
\* before line N+1 is read, and no two lines are ever in processing at once.
C3_InOrderNoPipelining ==
    /\ [](lineNo - handled \in {0, 1})
    /\ [](pc = "handling" <=> lineNo = handled + 1)
    /\ [][/\ lineNo' # lineNo => (handled = lineNo /\ lineNo' = lineNo + 1)
          /\ handled' # handled => (handled' = lineNo /\ lineNo' = lineNo)
          /\ (out' # out /\ out' # <<>>) => handled' = handled + 1]_vars

\* The second line is in processing after the first one was answered.
C3_Witness ==
    /\ pc = "handling"
    /\ lineNo = 2
    /\ handled = 1

\* C4: a CRLF-terminated ASCII line whose verb is QUIT in any letter case gets
\* exactly "221 Bye\r\n", the session ends with close reason Quit and handle
\* returns Ok.
C4_Quit ==
    (Handled /\ line \in CommandLines(QuitVerbs)) =>
        /\ out = Reply(s_221_Bye)
        /\ shouldClose = "Close"
        /\ pc = "closed"
        /\ closeReason = "Quit"
        /\ ret = "Ok"

\* "\t quit there\r\n" has been answered and the session closed.
C4_Witness ==
    /\ Handled
    /\ line = <<32, 9, 113, 117, 105, 116, 32, 116, 104, 101, 114, 101, 13, 10>>
    /\ out = Reply(s_221_Bye)
    /\ closeReason = "Quit"

\* C5: a CRLF-terminated ASCII line whose verb is none of the nine known verbs
\* gets exactly "500 Command not recognized\r\n" and the session stays open.
C5_Unrecognized ==
    (Handled /\ line \in CommandLines(OtherVerbs)) =>
        /\ out = Reply(s_500_not_recognized)
        /\ shouldClose = "Keep"

\* C6: a CRLF-terminated ASCII line whose verb is EHLO, MAIL, RCPT, DATA, RSET,
\* NOOP or VRFY in any letter case gets exactly "502 Command not implemented\r\n"
\* and the session stays open.
C6_NotImplemented ==
    (Handled /\ line \in CommandLines(NotImplementedVerbs)) =>
        /\ out = Reply(s_502_not_implemented)
        /\ shouldClose = "Keep"

\* The line "HELO\r\n" or "HELO <name>\r\n" with <name> free of '[' and space.
HeloThere == <<116, 104, 101, 114, 101>>  \* "there"
PlainHelo(verb, name) ==
    IF name = <<>> THEN verb \o CRLF ELSE verb \o <<32>> \o name \o CRLF

\* C7: a HELO command gets "250 example.com greets <client>\r\n" and the
\* session stays open; <client> is "client" without argument text, else the
\* argument text up to its first space (when it does not start with '[').
C7_Helo ==
    \A verb \in HeloVerbs :
        /\ (Handled /\ line = PlainHelo(verb, <<>>)) =>
              /\ out = Reply(s_250 \o CONNECTION_DOMAIN \o s_greets \o s_client)
              /\ shouldClose = "Keep"
        /\ (Handled /\ line = PlainHelo(verb, HeloThere)) =>
              /\ out = Reply(s_250 \o CONNECTION_DOMAIN \o s_greets \o HeloThere)
              /\ shouldClose = "Keep"

\* C8: a HELO command whose argument text starts with '[' and has no ']' gets
\* one reply beginning "500 Syntax error - ", no 250 reply, and the session
\* stays open.
C8_HeloUnterminated ==
    \A verb \in HeloVerbs, lead \in Leads :
        (Handled /\ line = lead \o verb \o <<32, 91, 49, 46, 50>> \o CRLF) =>
            /\ Len(out) = 1
            /\ BeginsWith(out[1], s_500_Syntax_error)
            /\ shouldClose = "Keep"

\* Only space, tab, CR and LF.
OnlyWhitespace(l) == \A i \in 1..Len(l) : l[i] \in {32, 9, 13, 10}

\* C9: a line that does not end with CRLF (a bare LF is not repaired) and a
\* CRLF-terminated line of only whitespace each get exactly one reply beginning
\* "500 Syntax error - " ("no trailing CRLF" for the first), handle returns
\* Keep and the session goes on to read the next line.
C9_SyntaxErrorsKeep ==
    /\ [](Handled /\ ~EndsWithCrLf(line) =>
            /\ out = Reply(s_500_Syntax_error \o s_no_trailing_CRLF)
            /\ shouldClose = "Keep")
    /\ [](Handled /\ EndsWithCrLf(line) /\ OnlyWhitespace(line) =>
            /\ Len(out) = 1
            /\ BeginsWith(out[1], s_500_Syntax_error)
            /\ EndsWithCrLf(out[1])
            /\ shouldClose = "Keep")
    /\ [][(handled' = handled + 1 /\ shouldClose' # "Err"
            /\ (~EndsWithCrLf(line) \/ OnlyWhitespace(line)))
          => pc' = "reading"]_vars

\* "QUIT\n" (bare LF) was answered with "no trailing CRLF" and the session
\* went on to the next read.
C9_Witness ==
    /\ Handled
    /\ line = <<81, 85, 73, 84, 10>>
    /\ out = Reply(s_500_Syntax_error \o s_no_trailing_CRLF)
    /\ pc = "reading"
    /\ lineNo = 1

\* " \t\r\n" was answered with a syntax error and the session stays open.
C9_WitnessWhitespace ==
    /\ Handled
    /\ line = <<32, 9, 13, 10>>
    /\ out = Reply(s_500_Syntax_error \o s_only_whitespace)
    /\ pc = "reading"

\* The last read_line consumed these bytes and the session is past them.
Consumed == line # <<>> /\ pc # "handling" /\ shouldClose # "Err"

C10_WitnessInvalidUtf8 ==
    /\ line = <<70, 79, 79, 32, 233, 13, 10>>
    /\ pc = "closed"
    /\ ret = "Err"

\* C11: a read of zero bytes ends the session with close reason ClosedByClient,
\* nothing is written from then on, and handle returns Ok(()).
C11_ZeroBytesClosedByClient ==
    /\ [](lastRead = "Zero" =>
            /\ pc = "closed"
            /\ closeReason = "ClosedByClient"
            /\ ret = "Ok")
    /\ [][lastRead' = "Zero" => (out' = out /\ greeting' = greeting)]_vars

\* The client closed after one answered line; the next read got zero bytes.
C11_Witness ==
    /\ lastRead = "Zero"
    /\ lineNo = 1
    /\ handled = 1
    /\ closeReason = "ClosedByClient"
    /\ ret = "Ok"

\* The session with the timer of tokio::time::timeout in force: a read that
\* stays pending is ended by the timeout.
SpecLive == Spec /\ WF_vars(Elapse) /\ WF_vars(ReadTimeout)

\* The session waits in a read and the client, still connected, has sent no
\* complete line that is yet to be read.
IdleRead == pc = "reading" /\ lineNo = sent /\ ~clientClosed

\* C12: a read that gets no complete line within SERVER_TIMEOUT ends the session
\* with close reason TimedOut, nothing is written from then on and handle
\* returns Ok(()); a session whose client stays connected and idle terminates.
C12_IdleTimesOut ==
    /\ [](lastRead = "Elapsed" =>
            /\ pc = "closed"
            /\ closeReason = "TimedOut"
            /\ ret = "Ok")
    /\ [][lastRead' = "Elapsed" => (out' = out /\ greeting' = greeting)]_vars
    /\ (IdleRead ~> (pc = "closed" \/ lineNo < sent \/ clientClosed))

\* The client sent half a line and then nothing; the read timed out.
C12_Witness ==
    /\ lastRead = "Elapsed"
    /\ fragment
    /\ ~clientClosed
    /\ closeReason = "TimedOut"
    /\ ret = "Ok"
    /\ pc = "closed"

\* A read of the stream failed (any error of read_line, zero bytes apart), or
\* the write of the greeting or of a reply failed.
TransportFailed(kinds) ==
    \/ lastRead \in kinds
    \/ shouldClose = "Err"
    \/ (pc = "closed" /\ lastRead = "none")

\* C13: every transport failure (a read error other than a zero-byte end of
\* stream, a failed write of the greeting or of a reply) makes handle return
\* Err, and the session ends without a CloseReason.
C13_TransportFailureReturnsErr ==
    TransportFailed(ErrorKinds \cup {"InvalidData"}) =>
        /\ pc = "closed"
        /\ ret = "Err"
        /\ closeReason = "none"

\* The CloseReasons of connection/mod.rs.
CloseReasons == {"Quit", "Error", "TimedOut", "ClosedByClient"}

\* C14 as stated: every session records exactly one CloseReason, never zero
\* when it has ended and never more than one.
C14_ExactlyOneCloseReason ==
    /\ [](pc = "closed" => closeReason \in CloseReasons)
    /\ [][closeReason # "none" => closeReason' = closeReason]_vars

\* C14 amended: a session that ends with handle returning Ok(()) has exactly
\* one CloseReason, one of Quit, ClosedByClient and TimedOut; a session that
\* ends with handle returning Err has none; no session has more than one.
C14_OneCloseReasonUnlessErr ==
    /\ [](pc = "closed" =>
            \/ ret = "Ok" /\ closeReason \in {"Quit", "ClosedByClient", "TimedOut"}
            \/ ret = "Err" /\ closeReason = "none")
    /\ [][closeReason # "none" => closeReason' = closeReason]_vars

\* A session ended by QUIT while the client had a second line on the wire.
C14_Witness ==
    /\ pc = "closed"
    /\ ret = "Ok"
    /\ closeReason = "Quit"
    /\ sent = 2
    /\ lineNo = 1

\* Greeting, Serving, Terminated as 0, 1, 2.
Stage(p) == IF p = "accepted" THEN 0 ELSE IF p = "closed" THEN 2 ELSE 1

\* C15: a session only moves forward through Greeting, Serving, Terminated;
\* it is Terminated exactly when handle has returned, and from then on it reads
\* and writes nothing, whatever the client still sends.
C15_ForwardOnly ==
    /\ [](pc = "closed" <=> ret # "none")
    /\ [][Stage(pc') >= Stage(pc)]_vars
    /\ [][pc # "accepted" => greeting' = greeting]_vars
    /\ [][pc = "closed" =>
            UNCHANGED <<pc, lineNo, handled, line, greeting, out, shouldClose,
                        closeReason, ret, lastRead>>]_vars

\* QUIT was answered and the session ended; the second line the client sent
\* and its closing of the stream are left unread.
C15_Witness ==
    /\ pc = "closed"
    /\ closeReason = "Quit"
    /\ out = Reply(s_221_Bye)
    /\ sent = 2
    /\ clientClosed
    /\ lineNo = 1
    /\ handled = 1

\* US-ASCII only, CRLF at the end, every CR followed by LF and every LF
\* preceded by CR.
SmtpLines(c) ==
    /\ AllAscii(c)
    /\ EndsWithCrLf(c)
    /\ \A i \in 1..Len(c) :
        /\ c[i] = 13 => (i < Len(c) /\ c[i + 1] = 10)
        /\ c[i] = 10 => (i > 1 /\ c[i - 1] = 13)

\* C16: every chunk the server writes (the greeting, every reply of the
\* session, every reply of a command handler, HELO's echo of client text
\* included) is US-ASCII, ends with CRLF and has no bare CR and no bare LF.
C16_WrittenChunksAreSmtpLines ==
    /\ \A i \in 1..Len(greeting) : SmtpLines(greeting[i])
    /\ \A i \in 1..Len(out) : SmtpLines(out[i])
    /\ fnpc \in {"hello", "quit", "unrecognized", "not_implemented"} =>
          \A i \in 1..Len(reply.written) : SmtpLines(reply.written[i])

\* hello answered "HELO a\ra\r\n", whose text has a bare CR.
C16_Witness ==
    /\ fnpc = "hello"
    /\ input = <<72, 69, 76, 79, 32, 97, 13, 97, 13, 10>>
    /\ Len(reply.written) = 1
    /\ Len(reply.written[1]) > Len(s_250 \o CONNECTION_DOMAIN \o s_greets) + 5

\* Every LF has a CR right before it and every CR an LF right after it.
CrLfPaired(c) ==
    \A i \in 1..Len(c) :
        /\ c[i] = 10 => (i > 1 /\ c[i - 1] = 13)
        /\ c[i] = 13 => (i < Len(c) /\ c[i + 1] = 10)

\* C17: for every ASCII s, in SmtpString::new(s) every LF is immediately
\* preceded by CR and every CR immediately followed by LF.
C17_NormalizedIsCrLfPaired ==
    (fnpc \in {"new", "again"} /\ AllAscii(input)) =>
        /\ smtp.tag = "Ok"
        /\ CrLfPaired(smtp.str)

\* "\n\r" has been normalised to "\r\n\r\n".
C17_Witness ==
    /\ fnpc = "new"
    /\ input = <<10, 13>>
    /\ smtp = [tag |-> "Ok", str |-> <<13, 10, 13, 10>>]

\* C18: normalisation is idempotent: SmtpString::new applied to its own result
\* returns that result unchanged.
C18_NormalizeIdempotent ==
    fnpc = "again" => again = [tag |-> "Ok", str |-> smtp.str]

\* "\r\r\n" became "\r\n\r\n", and that went through once more.
C18_Witness ==
    /\ fnpc = "again"
    /\ input = <<13, 13, 10>>
    /\ smtp.str = <<13, 10, 13, 10>>
    /\ again.tag = "Ok"

\* The reference result: s from position i on, left to right, with each LF not
\* right after a CR and each CR not right before an LF replaced by CRLF.
RECURSIVE Reference(_, _)
Reference(s, i) ==
    IF i > Len(s) THEN <<>>
    ELSE LET bareLf == s[i] = 10 /\ (i = 1 \/ s[i - 1] # 13)
             bareCr == s[i] = 13 /\ (i = Len(s) \/ s[i + 1] # 10)
         IN  (IF bareLf \/ bareCr THEN <<13, 10>> ELSE <<s[i]>>) \o Reference(s, i + 1)

\* C19: for every ASCII s, SmtpString::new(s) is the reference result.
C19_NormalizedIsReference ==
    (fnpc \in {"new", "again"} /\ AllAscii(input)) =>
        smtp = [tag |-> "Ok", str |-> Reference(input, 1)]

\* "a\n\ra" has been normalised to "a\r\n\r\na".
C19_Witness ==
    /\ fnpc = "new"
    /\ input = <<97, 10, 13, 97>>
    /\ smtp.str = <<97, 13, 10, 13, 10, 97>>

\* C20: SmtpString::new(s) is an error exactly when s has a non-ASCII byte,
\* whatever its line endings, and the error carries no normalised value.
C20_ErrIffNonAscii ==
    fnpc \in {"new", "again"} =>
        /\ smtp.tag = "Err" <=> ~AllAscii(input)
        /\ smtp.tag = "Err" => smtp = [tag |-> "Err"]
        /\ smtp.tag \in {"Ok", "Err"}

\* A bare LF followed by a non-ASCII byte was refused.
C20_Witness ==
    /\ fnpc = "new"
    /\ input = <<10, 233>>
    /\ smtp = [tag |-> "Err"]

\* parse has been applied to input and returned a Command.
Parsed == fnpc # "start" /\ parsed.tag = "Ok"

\* C21: for every Command that parse returns, the verb is non-empty.
C21_VerbNonEmpty == Parsed => Command_verb(parsed) # <<>>

\* C22: for every Command that parse returns, text() is never Some of an empty
\* string: with nothing after the separator the text is None.
C22_TextNeverEmpty == Parsed => Command_text(parsed) # Some(<<>>)

\* Letters a-z to A-Z, every other byte as it is.
Upper(b) == IF b \in 97..122 THEN b - 32 ELSE b

\* C23: parse upper-cases the bytes of the verb and changes nothing else: the
\* stored line has the length of the input, inside the verb range it is the
\* input upper-cased, and everywhere else it is the input byte for byte.
C23_OnlyVerbUppercased ==
    Parsed =>
        /\ Len(parsed.line) = Len(input)
        /\ \A i \in 1..Len(input) :
              parsed.line[i] =
                  IF i > parsed.verb[1] /\ i <= parsed.verb[2]
                  THEN Upper(input[i]) ELSE input[i]
        /\ \A i \in 1..Len(input) :
              (i <= parsed.verb[1] \/ i > parsed.verb[2]) => parsed.line[i] = input[i]

\* "a a\n" was parsed: the verb became "A", the text stayed "a" and the bare
\* LF stayed.
C23_Witness ==
    /\ Parsed
    /\ input = <<97, 32, 97, 10>>
    /\ parsed.line = <<65, 32, 97, 10>>
    /\ Command_text(parsed) = Some(<<97>>)

\* The first space or dash of the trimmed line, 0 if there is none.
FirstSeparator(t) ==
    LET seps == {i \in 1..Len(t) : t[i] \in {32, 45}}
    IN  IF seps = {} THEN 0 ELSE CHOOSE i \in seps : \A j \in seps : i <= j

\* C24: multiline() is HasNext exactly when the first space-or-dash of the
\* trimmed line is a dash; it is LastLine when that is a space or when the
\* trimmed line has neither.
C24_MultilineFromSeparator ==
    Parsed =>
        LET t == Command_trimmed(parsed)
            at == FirstSeparator(t)
        IN  parsed.multiline =
                IF at > 0 /\ t[at] = 45 THEN "HasNext" ELSE "LastLine"

\* "a- a" was parsed: the dash comes first, so the line has a next one.
C24_Witness ==
    /\ Parsed
    /\ input = <<97, 45, 32, 97>>
    /\ parsed.multiline = "HasNext"

\* What parse decides for an input whose whitespace is the set ws: Empty for
\* the zero-length line, OnlyWhitespace for a non-empty line of whitespace,
\* a Command for the rest.
ParseOutcome(ws) ==
    IF input = <<>> THEN "Empty"
    ELSE IF \A i \in 1..Len(input) : input[i] \in ws THEN "OnlyWhitespace"
    ELSE "Ok"

ParsedAs(outcome) ==
    IF outcome = "Ok" THEN parsed.tag = "Ok"
    ELSE parsed = [tag |-> "Err", err |-> outcome]

\* C25 as stated: Empty exactly for the zero-length line, OnlyWhitespace
\* exactly for non-empty lines of space, tab, CR and LF, a Command otherwise.
C25_ErrorsExact == fnpc # "start" => ParsedAs(ParseOutcome({32, 9, 13, 10}))

\* C25 amended: the whitespace of OnlyWhitespace is space, tab, LF, vertical
\* tab, form feed and CR.
C25_ErrorsExactAsciiWhitespace ==
    fnpc # "start" => ParsedAs(ParseOutcome({32, 9, 10, 11, 12, 13}))

\* A space and a vertical tab: only whitespace.
C25_Witness ==
    /\ fnpc = "parsed"
    /\ input = <<32, 11>>
    /\ parsed = [tag |-> "Err", err |-> "OnlyWhitespace"]

\* c is not empty and neither begins nor ends with ASCII whitespace.
NoOuterWhitespace(c) ==
    /\ c # <<>>
    /\ c[1] \notin {32, 9, 10, 11, 12, 13}
    /\ c[Len(c)] \notin {32, 9, 10, 11, 12, 13}

\* c with its verb (what comes before the first space or dash) upper-cased.
VerbUppercased(c) ==
    LET at == FirstSeparator(c)
    IN  [i \in 1..Len(c) |-> IF at = 0 \/ i < at THEN Upper(c[i]) ELSE c[i]]

C27_RawMatchesNormalization ==
    (fnpc = "raw" /\ Len(input) <= rawStr.cap) =>
        LET normalized == replace_endings_with_crlf(input)
        IN  IF Len(normalized) <= rawStr.cap
            THEN /\ rawStr.result.tag = "Ok"
                 /\ rawStr.result.len = Len(normalized)
                 /\ RawSmtpStr_as_bytes(rawStr.result) = normalized
            ELSE rawStr.result.tag = "Panic"

\* "\n\r" in a buffer of four became "\r\n\r\n".
C27_Witness ==
    /\ fnpc = "raw"
    /\ input = <<10, 13>>
    /\ rawStr.cap = 4
    /\ rawStr.result.tag = "Ok"
    /\ RawSmtpStr_as_bytes(rawStr.result) = <<13, 10, 13, 10>>

\* "a\r" in a buffer of two: the result needs three, and the call panicked.
C27_WitnessPanic ==
    /\ fnpc = "raw"
    /\ input = <<97, 13>>
    /\ rawStr.cap = 2
    /\ rawStr.result.tag = "Panic"

\* The session is past its greeting: the greeting is what was written before
\* the first read.
Greeted(text) ==
    /\ (pc \in {"reading", "handling"} \/ lineNo > 0 \/ lastRead # "none") =>
            greeting # <<>>
    /\ greeting # <<>> => greeting = <<text>>

RECURSIVE SessionsYielded(_)
SessionsYielded(n) ==
    IF n = 0 THEN 0
    ELSE SessionsYielded(n - 1) + (IF items[n].tag = "Session" THEN 1 ELSE 0)

\* C29: a session that ends, with an I/O error or otherwise, leaves the
\* listener as it is: the stream goes on accepting, and every accepted
\* connection gets a freshly spawned session of its own, one handle per
\* connection in accept order.
C29_SessionsDoNotDisturbListener ==
    /\ [][(\E k \in 1..Len(sessions) : sessions[k] = "running" /\ sessions'[k] # "running")
            => (lpc' = lpc /\ items' = items /\ pending' = pending)]_vars
    /\ [][pending' < pending =>
            /\ sessions' = Append(sessions, "running")
            /\ items' = Append(items, SessionItem(Len(sessions')))]_vars
    /\ [](SessionsYielded(Len(items)) = Len(sessions))
    /\ []((lpc = "accepting" /\ pending > 0) => ENABLED Accept)
    /\ [](lpc = "accepting" <=> \A i \in 1..Len(items) : items[i].tag = "Session")

\* The first session ended with an error, the second panicked, and a third
\* connection was accepted and runs.
C29_Witness ==
    /\ sessions = <<"Err", "Panic", "running">>
    /\ items = <<SessionItem(1), SessionItem(2), SessionItem(3)>>
    /\ lpc = "accepting"

\* C30: a failed accept is yielded as an Err item with no session spawned for
\* it, and after it the stream yields nothing more.
C30_AcceptErrorEndsStream ==
    /\ [][(lpc = "accepting" /\ lpc' # "accepting") =>
            /\ items' = Append(items, ErrItem)
            /\ sessions' = sessions
            /\ pending' = pending]_vars
    /\ [][lpc = "ended" =>
            /\ lpc' = "ended"
            /\ items' = items
            /\ Len(sessions') = Len(sessions)]_vars
    /\ [](\A i \in 1..Len(items) : items[i].tag = "Err" => i = Len(items))

\* One session was yielded, then an accept failed; a connection made since
\* waits and is never accepted.
C30_Witness ==
    /\ lpc = "ended"
    /\ items = <<SessionItem(1), ErrItem>>
    /\ pending = 1
    /\ Len(sessions) = 1

\* C31: the greeting is written exactly once per session and before the first
\* read from the client; when that write fails, handle returns Err without
\* having read any client line.
C31_GreetingOnceBeforeReads ==
    /\ [][greeting' # greeting =>
            /\ greeting = <<>> /\ Len(greeting') = 1
            /\ lastRead = "none" /\ lineNo = 0 /\ lastRead' = "none"]_vars
    /\ []((lastRead # "none" \/ lineNo > 0 \/ pc \in {"reading", "handling"})
            => Len(greeting) = 1)
    /\ []((pc = "closed" /\ greeting = <<>>)
            => (ret = "Err" /\ lastRead = "none" /\ lineNo = 0 /\ handled = 0))

\* The greeting could not be written: handle returned Err with a line of the
\* client on the wire that was never read.
C31_Witness ==
    /\ pc = "closed" /\ ret = "Err"
    /\ greeting = <<>>
    /\ sent = 1 /\ lineNo = 0 /\ lastRead = "none"

\* The position of the first ']' of t.
FirstClose(t) == CHOOSE i \in 1..Len(t) : t[i] = 93 /\ \A j \in 1..(i - 1) : t[j] # 93

\* The argument text of the parsed command is an address literal: it starts
\* with '[' and holds a ']'.
LiteralText ==
    /\ parsed.text # None
    /\ Command_get_ok(parsed, parsed.text[1])
    /\ LET t == Command_text(parsed)[1]
       IN  Len(t) >= 1 /\ t[1] = 91 /\ \E i \in 1..Len(t) : t[i] = 93

\* C32: for a HELO command whose argument text starts with '[' and holds a
\* ']', the client identifier echoed in the 250 reply is the address literal
\* from that '[' through the first following ']' inclusive.
C32_LiteralThroughClosingBracket ==
    (fnpc = "hello" /\ LiteralText /\ reply.ret = "Keep") =>
        LET t == Command_text(parsed)[1]
        IN  /\ Len(reply.written) = 1
            /\ BeginsWith(reply.written[1],
                   s_250 \o CONNECTION_DOMAIN \o s_greets \o SubSeq(t, 1, FirstClose(t)))

\* C33: the read timeout is per line and starts anew with every read: a
\* session ends with TimedOut exactly when one single read has waited
\* SERVER_TIMEOUT without a complete line; bytes of a partial line received
\* during that wait neither put the deadline off nor are processed or answered.
C33_TimeoutPerRead ==
    \* every read begins with a timer of its own
    /\ [][(pc # "reading" /\ pc' = "reading") => ~timerFired']_vars
    /\ [](pc = "handling" => ~timerFired)
    \* TimedOut is the end of a read whose timer fired with no complete line
    /\ [][(closeReason' = "TimedOut" /\ closeReason # "TimedOut") =>
            /\ pc = "reading" /\ timerFired /\ lineNo = sent
            /\ pc' = "closed" /\ ret' = "Ok"]_vars
    /\ [](closeReason = "TimedOut" <=> lastRead = "Elapsed")
    /\ []((pc = "reading" /\ timerFired /\ lineNo = sent /\ ~clientClosed)
            => ENABLED ReadTimeout)
    \* partial bytes leave the timer alone, and are dropped with the read
    /\ [][(pc = "reading" /\ pc' = "reading" /\ fragment' # fragment)
            => timerFired' = timerFired]_vars
    /\ [][lastRead' = "Elapsed" =>
            /\ lineNo' = lineNo /\ handled' = handled /\ handled = lineNo
            /\ line' = line /\ out' = out /\ greeting' = greeting]_vars

\* One line was read and handled; in the next read the timer fired, bytes of
\* a partial line were on the wire, and the session ended with TimedOut.
C33_Witness ==
    /\ pc = "closed" /\ closeReason = "TimedOut"
    /\ lineNo = 1 /\ handled = 1 /\ sent = 1
    /\ fragment

\* C34: in connection/command.rs, a CRLF-terminated ASCII line whose trimmed
\* content holds no space and no dash is parsed without a panic, so a line
\* that is just QUIT gets "221 Bye\r\n" and Close(Quit).
C34_CommandRsNoSeparatorNoPanic ==
    (/\ fnpc = "command_rs_handle"
     /\ AllAscii(input) /\ EndsWithCrLf(input)
     /\ \A i \in 1..Len(input) : input[i] \notin {32, 45}
     /\ \E i \in 1..Len(input) : input[i] \notin {9, 10, 11, 12, 13, 32}) =>
        /\ reply.ret # "Panic"
        /\ (input \in {verb \o CRLF : verb \in QuitVerbs} /\ reply.ret # "Err") =>
              /\ reply.written = <<s_221_Bye \o CRLF>>
              /\ reply.ret = "Close" /\ reply.reason = "Quit"

\* s from position i on with every LF not right after a CR replaced by CRLF
\* and every other character left in place.
RECURSIVE LfReference(_, _)
LfReference(s, i) ==
    IF i > Len(s) THEN <<>>
    ELSE (IF s[i] = 10 /\ (i = 1 \/ s[i - 1] # 13) THEN <<13, 10>> ELSE <<s[i]>>)
             \o LfReference(s, i + 1)

\* No LF without a CR right before it.
NoBareLf(c) == \A i \in 1..Len(c) : c[i] = 10 => (i > 1 /\ c[i - 1] = 13)

\* C35: for every ASCII string, strings with two or more bare LFs included,
\* SmtpStr::mutate_into replaces every LF not preceded by CR with CRLF and
\* leaves all other characters in place, so the result has no bare LF.
C35_MutateIntoFixesEveryLf ==
    (fnpc = "mutate_into" /\ AllAscii(input)) =>
        /\ smtp = [tag |-> "Ok", str |-> LfReference(input, 1)]
        /\ NoBareLf(smtp.str)

\* C36: is_smtp_str(s) is true if and only if s is all ASCII, every LF in s
\* is immediately preceded by CR and every CR immediately followed by LF.
C36_IsSmtpStrExact ==
    fnpc = "is_smtp_str" => (smtp.value <=> (AllAscii(input) /\ CrLfPaired(input)))

\* The number of CRLF pairs in c.
CrLfCount(c) == Cardinality({i \in 1..(Len(c) - 1) : c[i] = 13 /\ c[i + 1] = 10})

\* A handler has been applied to the command parsed from input, hello to a
\* HELO command.
HandlerApplied ==
    \/ fnpc \in {"quit", "unrecognized", "not_implemented"}
    \/ fnpc = "hello" /\ input \in HeloInputs

\* An ASCII line as read_line hands it over: CRLF at the end and no LF before.
AsciiLine(l) ==
    /\ AllAscii(l) /\ EndsWithCrLf(l)
    /\ \A i \in 1..(Len(l) - 1) : l[i] # 10

\* C37: each client line gets at most one reply line: what is written while
\* one ASCII line is handled holds exactly one CRLF, at its very end, also for
\* a HELO argument with a CR in the middle.
C37_OneReplyLinePerLine ==
    (HandlerApplied /\ AsciiLine(input) /\ reply.written # <<>>) =>
        /\ Len(reply.written) = 1
        /\ EndsWithCrLf(reply.written[1])
        /\ CrLfCount(reply.written[1]) = 1

\* The client identifier of a 250 reply: what stands between "greets " and the
\* CRLF that ends the reply.
Identifier(chunk) ==
    SubSeq(chunk, Len(s_250 \o CONNECTION_DOMAIN \o s_greets) + 1, Len(chunk) - 2)

\* C38: in every 250 reply to HELO the client identifier after "greets " is
\* non-empty: "client" when the command has no argument text, else a non-empty
\* domain or address literal, whatever the argument text.
C38_IdentifierNonEmpty ==
    (/\ fnpc = "hello" /\ input \in HeloInputs
     /\ Len(reply.written) = 1
     /\ BeginsWith(reply.written[1], s_250 \o CONNECTION_DOMAIN \o s_greets)) =>
        /\ Identifier(reply.written[1]) # <<>>
        /\ parsed.text = None => Identifier(reply.written[1]) = s_client

\* C39: the handler checks a line in a fixed order, trailing CRLF, then ASCII,
\* then parse, and stops at the first failure with one reply: a line without
\* the trailing CRLF gets "no trailing CRLF" even when it also has non-ASCII
\* characters or nothing else in it, and the parser's Empty error is never
\* reached from the session, a line past the CRLF check being never empty.
C39_ChecksInOrder ==
    Handled =>
        /\ ~EndsWithCrLf(line) => out = Reply(s_500_Syntax_error \o s_no_trailing_CRLF)
        /\ (EndsWithCrLf(line) /\ ~AllAscii(line)) =>
              out = Reply(s_500_Syntax_error \o s_invalid_character)
        /\ (EndsWithCrLf(line) /\ AllAscii(line) /\ OnlyWhitespace(line)) =>
              out = Reply(s_500_Syntax_error \o s_only_whitespace)
        /\ out # Reply(s_500_Syntax_error \o s_empty_command)
        /\ Len(line) >= 1
        /\ Len(out) <= 1

\* " \xC3\xA9" came without a line ending before the stream ended: not ASCII
\* and no CRLF, answered with "no trailing CRLF".
C39_Witness ==
    /\ Handled
    /\ line = <<32, 195, 169>>
    /\ out = Reply(s_500_Syntax_error \o s_no_trailing_CRLF)

\* The ranges of the Command c are well-formed over its line.
WellFormed(c) ==
    /\ c.trimmed[1] = c.verb[1]
    /\ c.verb[1] <= c.verb[2]
    /\ c.verb[2] <= c.trimmed[2]
    /\ c.trimmed[2] <= Len(c.line)
    /\ c.text # None =>
          /\ c.text[1][1] = c.verb[2] + 1
          /\ c.text[1][1] <= c.text[1][2]
          /\ c.text[1][2] = c.trimmed[2]

\* C40: for every Command that parse returns the stored ranges are
\* well-formed over the stored line: trimmed.start = verb.start <= verb.end <=
\* trimmed.end <= len(line), and with a text, text.start = verb.end + 1 <=
\* text.end = trimmed.end; no accessor indexes out of bounds and verb and text
\* never overlap.
C40_RangesWellFormed ==
    /\ Parsed => WellFormed(parsed)
    /\ (fnpc = "padded" /\ padded.result.tag = "Ok") => WellFormed(padded.result)
    /\ fnpc # "start" => parsed.tag # "Panic"
    /\ fnpc = "padded" => padded.result.tag # "Panic"

\* " \ta-a" between whitespace was parsed: verb 2..3, text 4..5, trimmed 2..5.
C40_Witness ==
    /\ fnpc = "padded"
    /\ input = <<97, 45, 97>>
    /\ padded.prefix = <<32, 9>>
    /\ padded.result.tag = "Ok"
    /\ padded.result.verb = <<2, 3>>
    /\ padded.result.text = Some(<<4, 5>>)
    /\ padded.result.trimmed = <<2, 5>>

====
